---- MODULE Spec2Model ----
(***************************************************************************)
(* Game collection: the record store (database.js), the asset folders      *)
(* under uploads/ and the HTTP handlers that update both (main process).   *)
(*                                                                         *)
(* Strings the code inspects character by character (titles, folder        *)
(* names, numeric form fields) are sequences of one-character strings.     *)
(* Strings the code only tests for emptiness or copies (link, platform,    *)
(* notes, note contents) are TLA+ strings.                                 *)
(***************************************************************************)
EXTENDS Integers, Sequences, FiniteSets, TLC

(***************************************************************************)
(* Bounds of the model.                                                    *)
(***************************************************************************)
\* rows the AUTOINCREMENT key may hand out
MaxGames == 1
\* files the upload storages may write (each gets a fresh uuid)
MaxFiles == 3
\* requests the server answers in one run
MaxRequests == 3
\* rows and requests of the long runs, where two games share folders
SharedGames == 2
SharedRequests == 6
\* calls of updateGame in a run on the record store alone
MaxCalls == 1
\* handlers that may be between their first line and their answer together
MaxInflight == 2
\* requests in a run on the photos and notes of a game
ListRequests == 4

\* ids and requests of a run of creates, deletes and imports
MaxIds == 4

IdRequests == 4

\* requests in a run where photo uploads are under way while updates run
PhotoRequests == 4

\* the longest short title and the longest ending of a long title given to
\* sanitizeFolderName alone
MaxTitleLen == 3

MaxEndLen == 2

(***************************************************************************)
(* Characters.                                                             *)
(***************************************************************************)
LowerChars == <<"a","b","c","d","e","f","g","h","i","j","k","l","m",
                "n","o","p","q","r","s","t","u","v","w","x","y","z">>

UpperChars == <<"A","B","C","D","E","F","G","H","I","J","K","L","M",
                "N","O","P","Q","R","S","T","U","V","W","X","Y","Z">>

DigitChars == <<"0","1","2","3","4","5","6","7","8","9">>

Range(s) == { s[i] : i \in DOMAIN s }

IndexOf(s, c) == CHOOSE i \in DOMAIN s : s[i] = c

\* the character class [a-zA-Z0-9-] of the first replace
IsFolderChar(c) ==
    c \in Range(LowerChars) \cup Range(UpperChars) \cup Range(DigitChars) \cup {"-"}

\* String.prototype.toLowerCase on one character (ASCII letters; every other
\* character that can reach it here is a digit, "-" or "_")
ToLowerChar(c) ==
    IF c \in Range(UpperChars) THEN LowerChars[IndexOf(UpperChars, c)] ELSE c

(***************************************************************************)
(* sanitizeFolderName, one operator per link of its method chain.          *)
(***************************************************************************)
\* .replace(/[^a-zA-Z0-9-]/g, '_')
ReplaceUnsafe(s) == [ i \in DOMAIN s |-> IF IsFolderChar(s[i]) THEN s[i] ELSE "_" ]

\* .replace(/_+/g, '_')
RECURSIVE CollapseUnderscores(_)
CollapseUnderscores(s) ==
    IF Len(s) <= 1 THEN s
    ELSE IF s[1] = "_" /\ s[2] = "_" THEN CollapseUnderscores(Tail(s))
    ELSE <<s[1]>> \o CollapseUnderscores(Tail(s))

RECURSIVE StripLeading(_)
StripLeading(s) ==
    IF s # <<>> /\ s[1] = "_" THEN StripLeading(Tail(s)) ELSE s

\* a third replace whose pattern is /^_+/ alone
KeepTrailing(s) == s

RECURSIVE StripTrailing(_)
StripTrailing(s) ==
    IF s # <<>> /\ s[Len(s)] = "_" THEN StripTrailing(SubSeq(s, 1, Len(s) - 1)) ELSE s

\* a chain without the third replace
KeepUnderscores(s) == s

\* .replace(/^_+|_+$/g, '')
StripUnderscores(s) == StripTrailing(StripLeading(s))

\* the length .substring(0, 50) cuts the folder name to
MaxFolderLen == 50

\* .substring(0, 50)
Truncate(s) == IF Len(s) > MaxFolderLen THEN SubSeq(s, 1, MaxFolderLen) ELSE s

\* .toLowerCase()
ToLowerCase(s) == [ i \in DOMAIN s |-> ToLowerChar(s[i]) ]

sanitizeFolderName(title) ==
    ToLowerCase(Truncate(StripUnderscores(CollapseUnderscores(ReplaceUnsafe(title)))))

(***************************************************************************)
(* Values.                                                                 *)
(***************************************************************************)
\* JavaScript null (and an SQL NULL column)
Null == [null |-> TRUE]

\* a stored image path `http://localhost:3000/uploads/${folder}/${filename}`:
\* the folder segment and the file name are its only varying parts, and
\* neither holds a "/"
Url(folder, filename) == [folder |-> folder, filename |-> filename]

\* the order in which the handlers write the keys of a photo or note entry
EntryKeys == <<"path", "filename", "content", "dateAdded">>

\* the members of one entry as JSON text: each key the entry has, then its
\* value, in the order of the keys
RECURSIVE StringifyMembers(_, _)
StringifyMembers(entry, n) ==
    IF n > Len(EntryKeys) THEN <<>>
    ELSE (IF EntryKeys[n] \in DOMAIN entry
          THEN << [ t |-> "key", k |-> EntryKeys[n] ],
                  [ t |-> "value", v |-> entry[EntryKeys[n]] ] >>
          ELSE <<>>)
         \o StringifyMembers(entry, n + 1)

RECURSIVE StringifyEntries(_)
StringifyEntries(list) ==
    IF list = <<>> THEN <<>>
    ELSE << [ t |-> "{" ] >> \o StringifyMembers(Head(list), 1) \o << [ t |-> "}" ] >>
         \o StringifyEntries(Tail(list))

\* a stringify that writes the entries last to first
ReversedStringify(list) ==
    [json |-> StringifyEntries([ i \in 1..Len(list) |-> list[Len(list) + 1 - i] ])]

\* JSON.stringify of a list of entries: the text as its tokens, the entries
\* one after the other, each between braces
JsonStringify(list) == [json |-> StringifyEntries(list)]

\* the object from the token at i to its closing brace, and where it ends
RECURSIVE ParseMembers(_, _, _)
ParseMembers(tokens, i, obj) ==
    IF tokens[i].t = "}" THEN [ obj |-> obj, next |-> i + 1 ]
    ELSE ParseMembers(tokens, i + 2,
                      [ k \in DOMAIN obj \cup {tokens[i].k} |->
                          IF k = tokens[i].k THEN tokens[i + 1].v ELSE obj[k] ])

RECURSIVE ParseEntries(_, _)
ParseEntries(tokens, i) ==
    IF i > Len(tokens) THEN <<>>
    ELSE LET m == ParseMembers(tokens, i + 1, [ k \in {} |-> "" ])
         IN  <<m.obj>> \o ParseEntries(tokens, m.next)

\* JSON.parse of such a text
JsonParse(text) == ParseEntries(text.json, 1)

TextKeys == {"link", "platform", "notes"}

IntKeys == {"rageRating", "strikes"}

BoolKeys == {"finished", "is_checked"}

PathKeys == {"coverArtPath", "gameplayImagePath"}

ListKeys == {"additionalPhotos", "additionalNotes"}

\* the keys updateGame merges
UpdatableKeys == {"title"} \cup TextKeys \cup IntKeys \cup BoolKeys \cup PathKeys \cup ListKeys

\* JavaScript truthiness of a value of key k's type (an array is always truthy)
Truthy(k, v) ==
    CASE k = "title" -> v # <<>>
      [] k \in TextKeys -> v # ""
      [] k \in IntKeys -> v # 0
      [] k \in BoolKeys -> v
      [] k \in PathKeys -> v # Null
      [] OTHER -> TRUE

\* obj[k] is neither missing nor falsy
Has(obj, k) == k \in DOMAIN obj /\ Truthy(k, obj[k])

(***************************************************************************)
(* GameDatabase (database.js). The table is a function from the ids of    *)
(* its rows to the rows as stored: booleans as 0/1, lists as JSON text.   *)
(***************************************************************************)
\* a binding that counts every write in strikes
CountingColumns(data) ==
    [ title |-> data.title,
      link |-> IF Has(data, "link") THEN data.link ELSE "",
      rageRating |-> IF Has(data, "rageRating") THEN data.rageRating ELSE 0,
      finished |-> IF Has(data, "finished") THEN 1 ELSE 0,
      is_checked |-> IF Has(data, "is_checked") THEN 1 ELSE 0,
      platform |-> IF Has(data, "platform") THEN data.platform ELSE "",
      strikes |-> IF Has(data, "strikes") THEN data.strikes + 1 ELSE 1,
      notes |-> IF Has(data, "notes") THEN data.notes ELSE "",
      coverArtPath |-> IF Has(data, "coverArtPath") THEN data.coverArtPath ELSE Null,
      gameplayImagePath |->
          IF Has(data, "gameplayImagePath") THEN data.gameplayImagePath ELSE Null,
      additionalPhotos |->
          IF Has(data, "additionalPhotos") THEN JsonStringify(data.additionalPhotos)
          ELSE JsonStringify(<<>>),
      additionalNotes |->
          IF Has(data, "additionalNotes") THEN JsonStringify(data.additionalNotes)
          ELSE JsonStringify(<<>>) ]

\* the values stmt.run binds for the columns of createGame and updateGame
BoundColumns(data) ==
    [ title |-> data.title,
      link |-> IF Has(data, "link") THEN data.link ELSE "",
      rageRating |-> IF Has(data, "rageRating") THEN data.rageRating ELSE 0,
      finished |-> IF Has(data, "finished") THEN 1 ELSE 0,
      is_checked |-> IF Has(data, "is_checked") THEN 1 ELSE 0,
      platform |-> IF Has(data, "platform") THEN data.platform ELSE "",
      strikes |-> IF Has(data, "strikes") THEN data.strikes ELSE 0,
      notes |-> IF Has(data, "notes") THEN data.notes ELSE "",
      coverArtPath |-> IF Has(data, "coverArtPath") THEN data.coverArtPath ELSE Null,
      gameplayImagePath |->
          IF Has(data, "gameplayImagePath") THEN data.gameplayImagePath ELSE Null,
      additionalPhotos |->
          IF Has(data, "additionalPhotos") THEN JsonStringify(data.additionalPhotos)
          ELSE JsonStringify(<<>>),
      additionalNotes |->
          IF Has(data, "additionalNotes") THEN JsonStringify(data.additionalNotes)
          ELSE JsonStringify(<<>>) ]

\* a decoding that gives every row empty lists
EmptyListsRow(id, row) ==
    [ id |-> id,
      title |-> row.title,
      link |-> row.link,
      rageRating |-> IF row.rageRating # 0 THEN row.rageRating ELSE 0,
      finished |-> row.finished # 0,
      is_checked |-> row.is_checked # 0,
      platform |-> row.platform,
      strikes |-> IF row.strikes # 0 THEN row.strikes ELSE 0,
      notes |-> row.notes,
      coverArtPath |-> row.coverArtPath,
      gameplayImagePath |-> row.gameplayImagePath,
      dateAdded |-> row.dateAdded,
      additionalPhotos |-> <<>>,
      additionalNotes |-> <<>> ]

\* the row as getGameById and getAllGames hand it out
DecodeRow(id, row) ==
    [ id |-> id,
      title |-> row.title,
      link |-> row.link,
      rageRating |-> IF row.rageRating # 0 THEN row.rageRating ELSE 0,
      finished |-> row.finished # 0,
      is_checked |-> row.is_checked # 0,
      platform |-> row.platform,
      strikes |-> IF row.strikes # 0 THEN row.strikes ELSE 0,
      notes |-> row.notes,
      coverArtPath |-> row.coverArtPath,
      gameplayImagePath |-> row.gameplayImagePath,
      dateAdded |-> row.dateAdded,
      additionalPhotos |->
          IF row.additionalPhotos # Null THEN JsonParse(row.additionalPhotos) ELSE <<>>,
      additionalNotes |->
          IF row.additionalNotes # Null THEN JsonParse(row.additionalNotes) ELSE <<>> ]

getGameById(table, id) ==
    IF id \in DOMAIN table THEN DecodeRow(id, table[id]) ELSE Null

\* the games getAllGames hands out (SELECT * has no ORDER BY)
getAllGames(table) == { DecodeRow(id, table[id]) : id \in DOMAIN table }

\* the table after createGame inserts gameData under the next AUTOINCREMENT id
createGame(table, id, gameData, date) ==
    [ i \in DOMAIN table \cup {id} |->
        IF i = id
        THEN [ c \in DOMAIN BoundColumns(gameData) \cup {"dateAdded"} |->
                 IF c = "dateAdded" THEN date ELSE BoundColumns(gameData)[c] ]
        ELSE table[i] ]

\* a merge that looks at truthiness where the code looks at presence
TruthyMerge(gameData, existingGame, k) ==
    IF Has(gameData, k) THEN gameData[k] ELSE existingGame[k]

\* gameData.k !== undefined ? gameData.k : existingGame.k
MergeField(gameData, existingGame, k) ==
    IF k \in DOMAIN gameData THEN gameData[k] ELSE existingGame[k]

mergedData(gameData, existingGame) ==
    [ k \in UpdatableKeys |-> MergeField(gameData, existingGame, k) ]

\* a statement that also sets dateAdded, to the date of the update
TouchingStatement(table, id, merged) ==
    IF id \in DOMAIN table
    THEN [ table EXCEPT ![id] =
             [ c \in DOMAIN table[id] |->
                 IF c = "dateAdded" THEN 0 ELSE BoundColumns(merged)[c] ] ]
    ELSE table

\* the UPDATE statement: it changes the row with this id, if there is one
UpdateStatement(table, id, merged) ==
    IF id \in DOMAIN table
    THEN [ table EXCEPT ![id] =
             [ c \in DOMAIN table[id] |->
                 IF c = "dateAdded" THEN table[id].dateAdded
                 ELSE BoundColumns(merged)[c] ] ]
    ELSE table

\* updateGame on a row getGameById finds ('Game not found' is the caller's case)
updateGame(table, id, gameData) ==
    UpdateStatement(table, id, mergedData(gameData, getGameById(table, id)))

deleteGame(table, id) == [ i \in DOMAIN table \ {id} |-> table[i] ]

(***************************************************************************)
(* The asset store: the directory tree under uploads/. A directory is the *)
(* sequence of names leading to it from uploads/ (<<>> is uploads/        *)
(* itself); a file is a directory and a file name.                        *)
(***************************************************************************)
\* path.join(getAppDataPath(), 'uploads', folderName): an empty folder name
\* adds no segment
DirOf(folderName) == IF folderName = <<>> THEN <<>> ELSE <<folderName>>

IsPrefix(p, q) == Len(p) <= Len(q) /\ SubSeq(q, 1, Len(p)) = p

\* fs.mkdirSync(dir, { recursive: true })
mkdirSync(fs, dir) ==
    [ fs EXCEPT !.dirs = @ \cup { SubSeq(dir, 1, n) : n \in 0..Len(dir) } ]

\* fs.readdirSync(dir): the files and the directories directly in dir
readdirSync(fs, dir) ==
    { [kind |-> "file", name |-> f.name] : f \in { g \in fs.files : g.dir = dir } }
    \cup { [kind |-> "dir", name |-> d[Len(d)]] :
             d \in { e \in fs.dirs : Len(e) = Len(dir) + 1 /\ IsPrefix(dir, e) } }

IsEmptyDir(fs, dir) == readdirSync(fs, dir) = {}

\* whether fs.renameSync(from/entry, to/entry) can succeed: a directory cannot
\* move into itself (EINVAL) nor onto a directory that is not empty (ENOTEMPTY)
CanRename(fs, from, to, entry) ==
    \/ entry.kind = "file"
    \/ /\ ~IsPrefix(from \o <<entry.name>>, to \o <<entry.name>>)
       /\ (to \o <<entry.name>>) \in fs.dirs => IsEmptyDir(fs, to \o <<entry.name>>)

\* where a path under from/name lies after from/name has moved to to/name
Moved(path, from, to, name) ==
    IF IsPrefix(from \o <<name>>, path)
    THEN to \o SubSeq(path, Len(from) + 1, Len(path))
    ELSE path

\* fs.renameSync(from/entry, to/entry)
renameSync(fs, from, to, entry) ==
    IF entry.kind = "file"
    THEN [ fs EXCEPT !.files =
             (@ \ {[dir |-> from, name |-> entry.name]})
             \cup {[dir |-> to, name |-> entry.name]} ]
    ELSE [ dirs |-> { Moved(d, from, to, entry.name) : d \in fs.dirs },
           files |-> { [dir |-> Moved(f.dir, from, to, entry.name), name |-> f.name] :
                       f \in fs.files } ]

\* the loop over the entries of the old directory, for a set of entries
RECURSIVE RenameAll(_, _, _, _)
RenameAll(fs, from, to, entries) ==
    IF entries = {} THEN fs
    ELSE LET e == CHOOSE x \in entries : TRUE
         IN RenameAll(renameSync(fs, from, to, e), from, to, entries \ {e})

\* the local file of a stored path: the URL with `http://localhost:3000`
\* replaced by getAppDataPath()
LocalFile(url) == [dir |-> DirOf(url.folder), name |-> url.filename]

\* if (fs.existsSync(p)) fs.unlinkSync(p)
unlinkIfExists(fs, file) == [ fs EXCEPT !.files = @ \ {file} ]

(***************************************************************************)
(* renameGameFolder: the results it can return and the asset store it     *)
(* leaves. fault = "rename" lets a renameSync throw, fault = "rmdir" lets *)
(* rmdirSync throw; readdirSync lists the entries in any order.           *)
(***************************************************************************)
\* a loop that moves nothing
LeaveFiles(fs, from, to, entries) == fs

\* for (const file of files) fs.renameSync(oldFilePath, newFilePath)
MoveFiles(fs, from, to, entries) == RenameAll(fs, from, to, entries)

\* a test that forgets to compare the two folder names
FolderExists(fs, oldFolderName, newFolderName) == DirOf(oldFolderName) \in fs.dirs

\* fs.existsSync(oldPath) && oldFolderName !== newFolderName
FolderChanges(fs, oldFolderName, newFolderName) ==
    DirOf(oldFolderName) \in fs.dirs /\ oldFolderName # newFolderName

renameGameFolder(fs, oldTitle, newTitle, fault) ==
    LET oldFolderName == sanitizeFolderName(oldTitle)
        newFolderName == sanitizeFolderName(newTitle)
        oldPath == DirOf(oldFolderName)
        newPath == DirOf(newFolderName)
        made == mkdirSync(fs, newPath)
        files == readdirSync(made, oldPath)
        stuck == { e \in files : ~CanRename(made, oldPath, newPath, e) }
        throwing == IF fault = "rename" THEN files ELSE stuck
        moved == MoveFiles(made, oldPath, newPath, files)
    IN  IF FolderChanges(fs, oldFolderName, newFolderName)
        THEN { [ success |-> FALSE, threw |-> TRUE, removed |-> FALSE,
                 fs |-> MoveFiles(made, oldPath, newPath, done) ] :
               done \in UNION { SUBSET ((files \ stuck) \ {e}) : e \in throwing } }
             \cup
             IF throwing = {}
             THEN { [ success |-> TRUE, threw |-> FALSE,
                      removed |-> fault # "rmdir" /\ IsEmptyDir(moved, oldPath),
                      fs |-> IF fault # "rmdir" /\ IsEmptyDir(moved, oldPath)
                             THEN [ moved EXCEPT !.dirs = @ \ {oldPath} ]
                             ELSE moved ] }
             ELSE {}
        ELSE { [ success |-> FALSE, threw |-> FALSE, removed |-> FALSE, fs |-> fs ] }

(***************************************************************************)
(* The multipart form of a create or update request. body maps the text   *)
(* fields the client sent to their text; files are the file fields sent;  *)
(* seen are the file fields that follow the title field in the form, the  *)
(* only ones whose upload finds req.body.title set.                       *)
(***************************************************************************)
Temp == <<"t","e","m","p">>

\* parseInt: an optional sign and the leading decimal digits; nan without any
RECURSIVE LeadingDigits(_)
LeadingDigits(s) ==
    IF s # <<>> /\ s[1] \in Range(DigitChars)
    THEN <<s[1]>> \o LeadingDigits(Tail(s))
    ELSE <<>>

RECURSIVE DigitsValue(_)
DigitsValue(s) ==
    IF s = <<>> THEN 0
    ELSE 10 * DigitsValue(SubSeq(s, 1, Len(s) - 1)) + (IndexOf(DigitChars, s[Len(s)]) - 1)

RECURSIVE SkipSpaces(_)
SkipSpaces(s) == IF s # <<>> /\ s[1] = " " THEN SkipSpaces(Tail(s)) ELSE s

parseInt(text) ==
    LET t == SkipSpaces(text)
        negative == t # <<>> /\ t[1] = "-"
        signed == t # <<>> /\ t[1] \in {"-", "+"}
        digits == LeadingDigits(IF signed THEN Tail(t) ELSE t)
    IN  [ nan |-> digits = <<>>,
          value |-> IF negative THEN 0 - DigitsValue(digits) ELSE DigitsValue(digits) ]

\* parseInt(req.body[k]) || 0
IntField(body, k) ==
    IF k \in DOMAIN body /\ ~parseInt(body[k]).nan THEN parseInt(body[k]).value ELSE 0

\* req.body[k] || ''
TextField(body, k) == IF k \in DOMAIN body /\ body[k] # "" THEN body[k] ELSE ""

\* req.body[k] === 'true'
BoolField(body, k) == k \in DOMAIN body /\ body[k] = "true"

\* req.body.title is set and not empty
HasTitle(body) == "title" \in DOMAIN body /\ body.title # <<>>

\* the gameData object both handlers build from the form, before the paths
FormData(body) ==
    [ k \in (IF "title" \in DOMAIN body THEN {"title"} ELSE {})
            \cup TextKeys \cup IntKeys \cup BoolKeys |->
        CASE k = "title" -> body.title
          [] k \in TextKeys -> TextField(body, k)
          [] k \in IntKeys -> IntField(body, k)
          [] OTHER -> BoolField(body, k) ]

\* obj with obj[k] set to v
With(obj, k, v) == [ j \in DOMAIN obj \cup {k} |-> IF j = k THEN v ELSE obj[j] ]

\* storage.filename: the prefix of the field and a fresh uuid
Filename(fieldname, uuid) ==
    <<IF fieldname = "coverArt" THEN "cover_" ELSE "gameplay_", uuid>>

\* storage.destination for one file: the folder comes from the title the
\* upload sees, 'temp' without one
Destination(body, fieldname, seen) ==
    DirOf(sanitizeFolderName(
        IF fieldname \in seen /\ HasTitle(body) THEN body.title ELSE Temp))

\* multer writes one file
StoreFile(fs, body, fieldname, seen, uuid) ==
    LET uploadDir == Destination(body, fieldname, seen)
        made == mkdirSync(fs, uploadDir)
    IN  [ made EXCEPT !.files =
            @ \cup {[dir |-> uploadDir, name |-> Filename(fieldname, uuid)]} ]

\* the uuid each file field of the request gets
Uuids(files, next) ==
    [ f \in files |-> IF f = "gameplayImage" /\ "coverArt" \in files THEN next + 1 ELSE next ]

\* upload.fields([coverArt, gameplayImage]): every file is on disk before the
\* handler runs
Upload(fs, body, files, seen, next) ==
    LET cover == IF "coverArt" \in files
                 THEN StoreFile(fs, body, "coverArt", seen, Uuids(files, next)["coverArt"])
                 ELSE fs
    IN  IF "gameplayImage" \in files
        THEN StoreFile(cover, body, "gameplayImage", seen, Uuids(files, next)["gameplayImage"])
        ELSE cover

\* req.files[fieldname][0].filename
Uploaded(files, next, fieldname) == Filename(fieldname, Uuids(files, next)[fieldname])

(***************************************************************************)
(* POST /games/update/:id, piece by piece. A handler state st holds what  *)
(* the handler has so far: threw (an exception is on its way to the catch *)
(* block), the asset store fs and the gameData object.                    *)
(***************************************************************************)
\* .replace(`/uploads/${oldFolder}/`, `/uploads/${newFolder}/`): the pattern
\* occurs in a stored path exactly when oldFolder is its folder segment
ReplaceFolder(path, oldFolder, newFolder) ==
    IF path.folder = oldFolder THEN Url(newFolder, path.filename) ELSE path

\* the gameData object of the update handler as first built
UpdateData(body, existingGame) ==
    With(With(FormData(body), "coverArtPath", existingGame.coverArtPath),
         "gameplayImagePath", existingGame.gameplayImagePath)

\* req.body.title && existingGame.title !== req.body.title
TitleChanged(body, existingGame) == HasTitle(body) /\ existingGame.title # body.title

\* a handler that leaves the stored paths alone when the title changes
KeepPaths(gameData, body, existingGame) == gameData

\* "Update image paths if they exist": done whatever renameGameFolder returned
RewritePaths(gameData, body, existingGame) ==
    LET oldFolder == sanitizeFolderName(existingGame.title)
        newFolder == sanitizeFolderName(body.title)
    IN  [ k \in DOMAIN gameData |->
            IF k \in PathKeys /\ gameData[k] # Null
            THEN ReplaceFolder(gameData[k], oldFolder, newFolder)
            ELSE gameData[k] ]

\* "Handle file uploads" for one file field: delete the old file, set the path
AttachFile(st, existingGame, folderName, files, next, fault, fieldname, key) ==
    LET old == existingGame[key]
        found == old # Null /\ LocalFile(old) \in st.fs.files
    IN  IF st.threw \/ fieldname \notin files THEN st
        ELSE IF found /\ fault = "unlink" THEN [ st EXCEPT !.threw = TRUE ]
        ELSE [ threw |-> FALSE,
               fs |-> IF found THEN unlinkIfExists(st.fs, LocalFile(old)) ELSE st.fs,
               gameData |-> With(st.gameData, key,
                                 Url(folderName, Uploaded(files, next, fieldname))) ]

\* from `const folderName = sanitizeFolderName(gameData.title)` to the call of
\* db.updateGame; sanitizeFolderName throws on a title that is undefined
AttachFiles(st, existingGame, files, next, fault) ==
    IF "title" \notin DOMAIN st.gameData THEN [ st EXCEPT !.threw = TRUE ]
    ELSE LET folderName == sanitizeFolderName(st.gameData.title)
         IN  AttachFile(
                 AttachFile(st, existingGame, folderName, files, next, fault,
                            "coverArt", "coverArtPath"),
                 existingGame, folderName, files, next, fault,
                 "gameplayImage", "gameplayImagePath")

\* what renameGameFolder returned, as the migration outcomes of the spec
Outcome(changed, result) ==
    IF ~changed THEN "none"
    ELSE IF result.success THEN "migrated"
    ELSE IF result.threw THEN "failed"
    ELSE "skipped"

\* the migration step: what renameGameFolder can return, or, the title being
\* the same or absent, the asset store as it is
Migration(fs, existingGame, body, fault) ==
    IF TitleChanged(body, existingGame)
    THEN renameGameFolder(fs, existingGame.title, body.title, fault)
    ELSE { [ success |-> FALSE, threw |-> FALSE, removed |-> FALSE, fs |-> fs ] }

\* gameData as it stands before "Handle file uploads"
GameData(body, existingGame) ==
    IF TitleChanged(body, existingGame)
    THEN RewritePaths(UpdateData(body, existingGame), body, existingGame)
    ELSE UpdateData(body, existingGame)

\* the handler from its first line to its response, on the asset store the
\* uploads left: every (status, table, asset store) it can end with
UpdateHandler(table, fs, id, body, files, next, fault) ==
    LET existingGame == getGameById(table, id)
    IN  IF existingGame = Null
        THEN { [ status |-> 404, error |-> "not found", table |-> table, fs |-> fs,
                 rename |-> "none", removed |-> FALSE, moved |-> fs ] }
        ELSE
          LET changed == TitleChanged(body, existingGame)
          IN  { LET st == AttachFiles([ threw |-> FALSE, fs |-> r.fs,
                                        gameData |-> GameData(body, existingGame) ],
                                      existingGame, files, next, fault)
                IN  IF st.threw \/ fault = "db"
                    THEN [ status |-> 500,
                           error |-> IF ~st.threw THEN "db"
                                     ELSE IF "title" \in DOMAIN body THEN "unlink"
                                     ELSE "TypeError",
                           table |-> table, fs |-> st.fs, rename |-> Outcome(changed, r),
                           removed |-> r.removed, moved |-> r.fs ]
                    ELSE [ status |-> 200, error |-> "none",
                           table |-> updateGame(table, id, st.gameData),
                           fs |-> st.fs, rename |-> Outcome(changed, r),
                           removed |-> r.removed, moved |-> r.fs ]
                : r \in Migration(fs, existingGame, body, fault) }

(***************************************************************************)
(* POST /games/create and DELETE /games/delete/:id.                       *)
(***************************************************************************)
\* the gameData object of the create handler; sanitizeFolderName throws on a
\* title that is undefined
CreateData(body, files, next) ==
    LET folderName == sanitizeFolderName(body.title)
        path(fieldname) == IF fieldname \in files
                           THEN Url(folderName, Uploaded(files, next, fieldname))
                           ELSE Null
    IN  With(With(FormData(body), "coverArtPath", path("coverArt")),
             "gameplayImagePath", path("gameplayImage"))

CreateHandler(table, id, body, files, next, date, fault) ==
    IF "title" \notin DOMAIN body \/ fault = "db"
    THEN [ status |-> 500,
           error |-> IF "title" \in DOMAIN body THEN "db" ELSE "TypeError",
           table |-> table ]
    ELSE [ status |-> 200, error |-> "none",
           table |-> createGame(table, id, CreateData(body, files, next), date) ]

\* "Delete associated files" for one path
DeleteAsset(st, path, fault) ==
    LET found == path # Null /\ LocalFile(path) \in st.fs.files
    IN  IF st.threw \/ ~found THEN st
        ELSE IF fault = "unlink" THEN [ st EXCEPT !.threw = TRUE ]
        ELSE [ st EXCEPT !.fs = unlinkIfExists(st.fs, LocalFile(path)) ]

DeleteHandler(table, fs, id, fault) ==
    LET game == getGameById(table, id)
        st == DeleteAsset(DeleteAsset([ threw |-> FALSE, fs |-> fs ],
                                      game.coverArtPath, fault),
                          game.gameplayImagePath, fault)
    IN  IF game = Null
        THEN [ status |-> 404, error |-> "not found", table |-> table, fs |-> fs ]
        ELSE IF st.threw \/ fault = "db"
        THEN [ status |-> 500, error |-> IF st.threw THEN "unlink" ELSE "db",
               table |-> table, fs |-> st.fs ]
        ELSE [ status |-> 200, error |-> "none", table |-> deleteGame(table, id),
               fs |-> st.fs ]

(***************************************************************************)
(* POST /games/:id/add-note.                                              *)
(***************************************************************************)
\* the payload the handler gives updateGame: the notes of the game it read
\* with the new note pushed
NoteData(game, content, date) ==
    [ additionalNotes |->
        Append(game.additionalNotes, [ content |-> content, dateAdded |-> date ]) ]

\* the handler from its first line to its response
AddNoteHandler(table, id, content, date) ==
    LET game == getGameById(table, id)
    IN  IF game = Null THEN [ status |-> 404, error |-> "not found", table |-> table ]
        ELSE IF content = ""
        THEN [ status |-> 400, error |-> "content required", table |-> table ]
        ELSE [ status |-> 200, error |-> "none",
               table |-> updateGame(table, id, NoteData(game, content, date)) ]

(***************************************************************************)
(* POST /games/:id/add-photo, DELETE /games/:id/delete-photo/:photoIndex  *)
(* and DELETE /games/:id/delete-note/:noteIndex.                          *)
(***************************************************************************)
\* photoStorage filename: 'additional_' + uuidv4() + extension
PhotoName(uuid) == <<"additional_", uuid>>

\* photoStorage destination and the write of the file: the folder of the
\* title of the game as stored now; without the game multer reports an error
PhotoUpload(table, fs, id, uuid) ==
    LET game == getGameById(table, id)
        dir == DirOf(sanitizeFolderName(game.title))
    IN  IF game = Null THEN fs
        ELSE [ dirs |-> mkdirSync(fs, dir).dirs,
               files |-> fs.files \cup { [ dir |-> dir, name |-> PhotoName(uuid) ] } ]

\* the payload the add-photo handler gives updateGame
PhotoData(game, uuid, date) ==
    [ additionalPhotos |->
        Append(game.additionalPhotos,
               [ path |-> Url(sanitizeFolderName(game.title), PhotoName(uuid)),
                 filename |-> PhotoName(uuid), dateAdded |-> date ]) ]

\* the request from the upload to the response; hasFile: the form has a photo
AddPhotoHandler(table, id, hasFile, uuid, date, fault) ==
    LET game == getGameById(table, id)
    IN  IF game = Null
        THEN [ status |-> IF hasFile THEN 500 ELSE 404, error |-> "not found",
               table |-> table ]
        ELSE IF ~hasFile
        THEN [ status |-> 400, error |-> "no photo", table |-> table ]
        ELSE IF fault = "db" THEN [ status |-> 500, error |-> "db", table |-> table ]
        ELSE [ status |-> 200, error |-> "none",
               table |-> updateGame(table, id, PhotoData(game, uuid, date)) ]

\* list.splice(start, 1) with start the parsed index: NaN counts as 0
Splice(list, index) ==
    LET start == IF index.nan THEN 0 ELSE index.value
    IN  [ i \in 1..(Len(list) - (IF start < Len(list) THEN 1 ELSE 0)) |->
            IF i <= start THEN list[i] ELSE list[i + 1] ]

\* photoIndex < 0 || photoIndex >= length: false when the index is NaN
InvalidIndex(index, length) ==
    ~index.nan /\ (index.value < 0 \/ index.value >= length)

DeletePhotoHandler(table, fs, id, text, fault) ==
    LET game == getGameById(table, id)
        index == parseInt(text)
        photoToDelete == game.additionalPhotos[index.value + 1]
        found == LocalFile(photoToDelete.path) \in fs.files
    IN  IF game = Null
        THEN [ status |-> 404, error |-> "not found", table |-> table, fs |-> fs ]
        ELSE IF InvalidIndex(index, Len(game.additionalPhotos))
        THEN [ status |-> 400, error |-> "invalid index", table |-> table, fs |-> fs ]
        ELSE IF index.nan
        THEN [ status |-> 500, error |-> "TypeError", table |-> table, fs |-> fs ]
        ELSE IF found /\ fault = "unlink"
        THEN [ status |-> 500, error |-> "unlink", table |-> table, fs |-> fs ]
        ELSE IF fault = "db"
        THEN [ status |-> 500, error |-> "db", table |-> table,
               fs |-> unlinkIfExists(fs, LocalFile(photoToDelete.path)) ]
        ELSE [ status |-> 200, error |-> "none",
               table |-> updateGame(table, id,
                             [ additionalPhotos |-> Splice(game.additionalPhotos, index) ]),
               fs |-> unlinkIfExists(fs, LocalFile(photoToDelete.path)) ]

DeleteNoteHandler(table, id, text, fault) ==
    LET game == getGameById(table, id)
        index == parseInt(text)
    IN  IF game = Null
        THEN [ status |-> 404, error |-> "not found", table |-> table ]
        ELSE IF InvalidIndex(index, Len(game.additionalNotes))
        THEN [ status |-> 400, error |-> "invalid index", table |-> table ]
        ELSE IF fault = "db" THEN [ status |-> 500, error |-> "db", table |-> table ]
        ELSE [ status |-> 200, error |-> "none",
               table |-> updateGame(table, id,
                             [ additionalNotes |-> Splice(game.additionalNotes, index) ]) ]

(***************************************************************************)
(* The requests the model sends.                                          *)
(***************************************************************************)
\* titles a form may carry: two with one folder name ("a"), one with another
\* ("b"), and the empty title
Titles == { <<"A","!">>, <<"a">>, <<"B">>, <<>> }

NoFields == [ k \in {} |-> "" ]

\* the text fields a form may carry besides the title
FieldSets ==
    { NoFields,
      [ rageRating |-> <<"5">> ],
      [ finished |-> "true" ],
      [ link |-> "L", rageRating |-> <<"5">>, finished |-> "true", is_checked |-> "true",
        platform |-> "P", strikes |-> <<"2">>, notes |-> "N" ] }

\* the bodies with the fields of f: one without a title, one for each title
Titled(f) == {f} \cup { With(f, "title", t) : t \in Titles }

FileFields == {"coverArt", "gameplayImage"}

\* forms without files: any fields, with or without a title
FieldForms ==
    { [ body |-> b, files |-> {}, seen |-> {} ] :
      b \in UNION { Titled(f) : f \in FieldSets } }

\* forms with at most a title and any files, each before or after the title
AssetForms ==
    { [ body |-> b, files |-> fs[1], seen |-> fs[2] ] :
      b \in Titled(NoFields),
      fs \in { p \in (SUBSET FileFields) \X (SUBSET FileFields) : p[2] \subseteq p[1] } }

\* what the environment may make fail in one request: nothing, a renameSync,
\* the rmdirSync, an unlinkSync, or the statement on the database
Faults == {"none", "rename", "rmdir", "unlink", "db"}

\* the times new Date() may give when a note or a photo is added
Dates == {0}

\* the forms of the long runs: a title and perhaps a cover sent after it
SharedForms ==
    { [ body |-> [ title |-> t ], files |-> fs, seen |-> fs ] :
      t \in {<<"a">>, <<"B">>, <<>>}, fs \in {{}, {"coverArt"}} }

\* a run of requests: how many games it may create, how many requests it has
\* and the dates DATE('now') may give when a game is created
Wide == [ games |-> MaxGames, requests |-> MaxRequests, dates |-> {0} ]

Long == [ games |-> SharedGames, requests |-> SharedRequests, dates |-> {0} ]

(***************************************************************************)
(* The state: the games table and its AUTOINCREMENT counter, the asset    *)
(* store, the number of uuids drawn, the number of requests answered, the  *)
(* last request with its answer and what it found (table: the games       *)
(* table, pre: the asset store, moved: the asset store as the migration   *)
(* of an update left it), and the handlers that have started and          *)
(* not yet answered.                                                      *)
(***************************************************************************)
VARIABLES games, nextId, assets, nextFile, answered, last, inflight

vars == <<games, nextId, assets, nextFile, answered, last, inflight>>

NoRequest ==
    [ op |-> "none", id |-> 0, body |-> NoFields, files |-> {}, seen |-> {},
      status |-> 0, error |-> "none", rename |-> "none", removed |-> FALSE,
      table |-> [ i \in {} |-> Null ], pre |-> [dirs |-> {}, files |-> {}],
      moved |-> [dirs |-> {}, files |-> {}], names |-> NoFields, issued |-> <<>> ]

Init ==
    /\ games = [ i \in {} |-> Null ]
    /\ nextId = 1
    /\ assets = [dirs |-> {}, files |-> {}]
    /\ nextFile = 1
    /\ answered = 0
    /\ last = NoRequest
    /\ inflight = <<>>

\* a form a client can send now: a file field follows the title only if there
\* is a title, and the uuids do not run out
CanSend(form, run) ==
    /\ answered < run.requests
    /\ form.seen # {} => HasTitle(form.body)
    /\ nextFile + Cardinality(form.files) <= MaxFiles + 1

Names(files) == [ f \in files |-> Uploaded(files, nextFile, f) ]

Request(op, id, form, out, rename, removed, moved) ==
    [ op |-> op, id |-> id, body |-> form.body, files |-> form.files, seen |-> form.seen,
      status |-> out.status, error |-> out.error, rename |-> rename, removed |-> removed,
      table |-> games, pre |-> assets, moved |-> moved, names |-> Names(form.files),
      issued |-> last.issued ]

\* the id when INTEGER PRIMARY KEY has no AUTOINCREMENT: one more than the
\* largest id in the table now
LargestRowid(table, next) ==
    IF DOMAIN table = {} THEN 1
    ELSE 1 + CHOOSE m \in DOMAIN table : \A i \in DOMAIN table : i <= m

\* the id INTEGER PRIMARY KEY AUTOINCREMENT gives the next row: one more than
\* the largest the table ever held, which sqlite_sequence keeps (next is that
\* plus one)
Autoincrement(table, next) == next

\* the handler's answer with the id createGame returned, if it returned
Issuing(request, out, id) ==
    [ request EXCEPT !.issued = IF out.status = 200 THEN Append(@, id) ELSE @ ]

\* POST /games/create: the uploads, then the handler
Create(forms, faults, run) ==
    \E form \in forms, date \in run.dates :
      /\ CanSend(form, run)
      /\ nextId <= run.games
      /\ \E out \in { CreateHandler(games, Autoincrement(games, nextId), form.body,
                                    form.files, nextFile, date, f) :
                      f \in faults \cap {"none", "db"} } :
           /\ games' = out.table
           /\ nextId' = IF out.status = 200 THEN Autoincrement(games, nextId) + 1
                        ELSE nextId
           /\ last' = Issuing(Request("create", Autoincrement(games, nextId), form, out,
                                      "none", FALSE, assets),
                              out, Autoincrement(games, nextId))
      /\ assets' = Upload(assets, form.body, form.files, form.seen, nextFile)
      /\ nextFile' = nextFile + Cardinality(form.files)
      /\ answered' = answered + 1
      /\ UNCHANGED inflight

\* POST /games/update/:id: the uploads, then the handler
Update(forms, faults, run) ==
    \E id \in 1..run.games, form \in forms :
      /\ CanSend(form, run)
      /\ \E out \in UNION { UpdateHandler(games,
                                Upload(assets, form.body, form.files, form.seen, nextFile),
                                id, form.body, form.files, nextFile, f) : f \in faults } :
           /\ games' = out.table
           /\ assets' = out.fs
           /\ last' = Request("update", id, form, out, out.rename, out.removed, out.moved)
      /\ nextFile' = nextFile + Cardinality(form.files)
      /\ answered' = answered + 1
      /\ UNCHANGED <<nextId, inflight>>

\* DELETE /games/delete/:id
Delete(faults, run) ==
    \E id \in 1..run.games :
      /\ answered < run.requests
      /\ \E out \in { DeleteHandler(games, assets, id, f) :
                      f \in faults \cap {"none", "unlink", "db"} } :
           /\ games' = out.table
           /\ assets' = out.fs
           /\ last' = Request("delete", id, [body |-> NoFields, files |-> {}, seen |-> {}],
                              out, "none", FALSE, assets)
      /\ answered' = answered + 1
      /\ UNCHANGED <<nextId, nextFile, inflight>>

\* requests that carry files, under every fault
Next ==
    \/ Create(AssetForms, Faults, Wide)
    \/ Update(AssetForms, Faults, Wide)
    \/ Delete(Faults, Wide)

Spec == Init /\ [][Next]_vars

\* requests that carry text fields only
NextFields ==
    \/ Create(FieldForms, {"none", "db"}, Wide)
    \/ Update(FieldForms, {"none", "db"}, Wide)
    \/ Delete({"none"}, Wide)

SpecFields == Init /\ [][NextFields]_vars

\* long runs on two games whose titles may give one folder, nothing failing
NextShared ==
    \/ Create(SharedForms, {"none"}, Long)
    \/ Update(SharedForms, {"none"}, Long)

SpecShared == Init /\ [][NextShared]_vars

(***************************************************************************)
(* Requests on the photos and notes of a game.                            *)
(***************************************************************************)
\* the note contents a request may carry
Contents == {"x", "y", ""}

\* the :photoIndex and :noteIndex a request may carry
IndexTexts == { <<"0">>, <<"1">>, <<"-", "1">>, <<"x">> }

\* forms with a title and perhaps a cover sent after it
ListForms ==
    { [ body |-> [ title |-> t ], files |-> fs, seen |-> fs ] :
      t \in {<<"a">>, <<"B">>}, fs \in {{}, {"coverArt"}} }

NoForm == [ body |-> NoFields, files |-> {}, seen |-> {} ]

\* POST /games/:id/add-photo: the upload, then the handler
AddPhotoRequest(faults, run) ==
    \E id \in 1..run.games, hasFile \in BOOLEAN, date \in Dates :
      LET written == hasFile /\ getGameById(games, id) # Null
      IN  /\ answered < run.requests
          /\ written => nextFile <= MaxFiles
          /\ \E out \in { AddPhotoHandler(games, id, hasFile, nextFile, date, f) :
                          f \in faults \cap {"none", "db"} } :
               /\ games' = out.table
               /\ last' = [ Request("add-photo", id, NoForm, out, "none", FALSE, assets)
                             EXCEPT !.files = IF hasFile THEN {"photo"} ELSE {},
                                    !.names = IF written
                                              THEN [ photo |-> PhotoName(nextFile) ]
                                              ELSE NoFields ]
          /\ assets' = IF hasFile THEN PhotoUpload(games, assets, id, nextFile) ELSE assets
          /\ nextFile' = IF written THEN nextFile + 1 ELSE nextFile
          /\ answered' = answered + 1
          /\ UNCHANGED <<nextId, inflight>>

\* POST /games/:id/add-note
AddNoteRequest(run) ==
    \E id \in 1..run.games, content \in Contents, date \in Dates :
      /\ answered < run.requests
      /\ LET out == AddNoteHandler(games, id, content, date)
         IN  /\ games' = out.table
             /\ last' = [ Request("add-note", id, NoForm, out, "none", FALSE, assets)
                           EXCEPT !.body = [ content |-> content ] ]
      /\ answered' = answered + 1
      /\ UNCHANGED <<nextId, assets, nextFile, inflight>>

\* DELETE /games/:id/delete-photo/:photoIndex
DeletePhotoRequest(faults, run) ==
    \E id \in 1..run.games, text \in IndexTexts :
      /\ answered < run.requests
      /\ \E out \in { DeletePhotoHandler(games, assets, id, text, f) :
                      f \in faults \cap {"none", "unlink", "db"} } :
           /\ games' = out.table
           /\ assets' = out.fs
           /\ last' = [ Request("delete-photo", id, NoForm, out, "none", FALSE, assets)
                         EXCEPT !.body = [ index |-> text ] ]
      /\ answered' = answered + 1
      /\ UNCHANGED <<nextId, nextFile, inflight>>

\* DELETE /games/:id/delete-note/:noteIndex
DeleteNoteRequest(faults, run) ==
    \E id \in 1..run.games, text \in IndexTexts :
      /\ answered < run.requests
      /\ \E out \in { DeleteNoteHandler(games, id, text, f) :
                      f \in faults \cap {"none", "db"} } :
           /\ games' = out.table
           /\ last' = [ Request("delete-note", id, NoForm, out, "none", FALSE, assets)
                         EXCEPT !.body = [ index |-> text ] ]
      /\ answered' = answered + 1
      /\ UNCHANGED <<nextId, assets, nextFile, inflight>>

Lists == [ games |-> MaxGames, requests |-> ListRequests, dates |-> {1, 2} ]

\* every request on a game, its photos and its notes
NextLists ==
    \/ Create(ListForms, {"none"}, Lists)
    \/ Update(ListForms, {"none", "db"}, Lists)
    \/ Delete({"none"}, Lists)
    \/ AddPhotoRequest({"none", "db"}, Lists)
    \/ AddNoteRequest(Lists)
    \/ DeletePhotoRequest({"none", "unlink", "db"}, Lists)
    \/ DeleteNoteRequest({"none", "db"}, Lists)

SpecLists == Init /\ [][NextLists]_vars

(***************************************************************************)
(* POST /games/import: the file is on disk (in uploads/temp, under the     *)
(* name the storage gives any field but coverArt) before the handler runs. *)
(***************************************************************************)
\* GameDatabase.clearAllGames: DELETE FROM games, which leaves sqlite_sequence
\* as it is
clearAllGames(table) == [ i \in {} |-> Null ]

\* for (const game of importData.games) await db.createGame(game): st holds
\* the table, the next id, the ids returned and whether createGame threw
RECURSIVE ImportLoop(_, _, _)
ImportLoop(st, list, date) ==
    IF list = <<>> THEN st
    ELSE IF "title" \notin DOMAIN Head(list) THEN [ st EXCEPT !.threw = TRUE ]
    ELSE LET id == Autoincrement(st.table, st.next)
         IN  ImportLoop([ st EXCEPT !.table = createGame(@, id, Head(list), date),
                                    !.next = id + 1,
                                    !.issued = Append(@, id) ],
                        Tail(list), date)

\* the handler from its first line to its response; content is the request's
\* file: none, one that JSON.parse rejects, or one with a games array
ImportHandler(table, next, content, date) ==
    LET st == ImportLoop([ threw |-> FALSE, table |-> clearAllGames(table),
                           next |-> next, issued |-> <<>> ],
                         content.games, date)
    IN  IF ~content.file
        THEN [ status |-> 400, error |-> "No file uploaded", table |-> table,
               next |-> next, issued |-> <<>> ]
        ELSE IF ~content.json
        THEN [ status |-> 500, error |-> "SyntaxError", table |-> table,
               next |-> next, issued |-> <<>> ]
        ELSE [ status |-> IF st.threw THEN 500 ELSE 200,
               error |-> IF st.threw THEN "TypeError" ELSE "none",
               table |-> st.table, next |-> st.next, issued |-> st.issued ]

\* the games an import file may list: exported records, with the id they had,
\* and one without a title
ImportedGames ==
    { [ id |-> 1, title |-> <<"a">> ], [ id |-> 2, title |-> <<"B">>, finished |-> TRUE ],
      [ id |-> 3 ] }

ImportFiles ==
    { [ file |-> FALSE, json |-> FALSE, games |-> <<>> ],
      [ file |-> TRUE, json |-> FALSE, games |-> <<>> ] }
    \cup { [ file |-> TRUE, json |-> TRUE, games |-> l ] :
             l \in {<<>>} \cup { <<g>> : g \in ImportedGames }
                   \cup { <<g, h>> : g \in ImportedGames, h \in ImportedGames } }

\* POST /games/import: the upload, then the handler, which unlinks the file
\* before it answers 200
ImportRequest(run) ==
    \E content \in ImportFiles, date \in run.dates :
      LET out == ImportHandler(games, nextId, content, date)
          stored == StoreFile(assets, NoFields, "file", {}, nextFile)
      IN  /\ answered < run.requests
          /\ content.file => nextFile <= MaxFiles
          /\ nextId + Len(content.games) <= run.games + 1
          /\ games' = out.table
          /\ nextId' = out.next
          /\ assets' = IF ~content.file THEN assets
                       ELSE IF out.status = 200
                       THEN unlinkIfExists(stored, [dir |-> DirOf(Temp),
                                                    name |-> Filename("file", nextFile)])
                       ELSE stored
          /\ nextFile' = IF content.file THEN nextFile + 1 ELSE nextFile
          /\ last' = [ Request("import", 0, NoForm, out, "none", FALSE, assets)
                         EXCEPT !.issued = @ \o out.issued ]
          /\ answered' = answered + 1
          /\ UNCHANGED inflight

Ids == [ games |-> MaxIds, requests |-> IdRequests, dates |-> {0} ]

\* creates, deletes and imports, which clear the table first
NextIds ==
    \/ Create(ListForms, {"none", "db"}, Ids)
    \/ Delete({"none"}, Ids)
    \/ ImportRequest(Ids)

SpecIds == Init /\ [][NextIds]_vars

(***************************************************************************)
(* sanitizeFolderName alone: called on a title, and on its own result.     *)
(***************************************************************************)
\* the strings of at most n characters of chars
RECURSIVE Strings(_, _)
Strings(chars, n) ==
    IF n = 0 THEN {<<>>}
    ELSE Strings(chars, n - 1)
         \cup { Append(s, c) : s \in Strings(chars, n - 1), c \in chars }

Repeat(c, n) == [ i \in 1..n |-> c ]

\* titles: short ones of letters, digits, spaces, signs and underscores, the
\* title "My Game!", and ones about as long as the folder name may be, ending
\* in letters, spaces or underscores
TitleInputs ==
    Strings({"M", " ", "-", "_", "1"}, MaxTitleLen)
    \cup { <<"M", "y", " ", "G", "a", "m", "e", "!">> }
    \cup { Repeat("a", n) \o e :
             n \in (MaxFolderLen - 2)..(MaxFolderLen + 1),
             e \in Strings({"B", " ", "_"}, MaxEndLen) }

InitSanitize ==
    /\ games = [ i \in {} |-> Null ]
    /\ nextId = 1
    /\ assets = [dirs |-> {}, files |-> {}]
    /\ nextFile = 1
    /\ answered = 0
    /\ last \in { [ NoRequest EXCEPT !.op = "title", !.body = [ title |-> t ] ] :
                   t \in TitleInputs }
    /\ inflight = <<>>

\* sanitizeFolderName(title)
Sanitize ==
    /\ last.op = "title"
    /\ last' = [ last EXCEPT !.op = "sanitizeFolderName",
                             !.names = [ folderName |-> sanitizeFolderName(last.body.title) ] ]
    /\ UNCHANGED <<games, nextId, assets, nextFile, answered, inflight>>

\* sanitizeFolderName of the folder name it returned
SanitizeAgain ==
    /\ last.op = "sanitizeFolderName"
    /\ last' = [ last EXCEPT !.op = "again",
                             !.names = [ folderName |-> last.names.folderName,
                                         again |-> sanitizeFolderName(last.names.folderName) ] ]
    /\ UNCHANGED <<games, nextId, assets, nextFile, answered, inflight>>

NextSanitize == Sanitize \/ SanitizeAgain

SpecSanitize == InitSanitize /\ [][NextSanitize]_vars

(***************************************************************************)
(* The record store alone: updateGame called with any payload on any row. *)
(***************************************************************************)
\* values of the type of field k: a falsy one (v = 0) and two truthy ones
FieldValue(k, v) ==
    CASE k = "title" -> IF v = 0 THEN <<>> ELSE IF v = 1 THEN <<"a">> ELSE <<"B">>
      [] k \in TextKeys -> IF v = 0 THEN "" ELSE IF v = 1 THEN "x" ELSE "y"
      [] k \in IntKeys -> IF v = 0 THEN 0 ELSE IF v = 1 THEN 5 ELSE 9
      [] k \in BoolKeys -> v = 1
      [] k \in PathKeys -> IF v = 0 THEN Null ELSE Url(<<"a">>, <<"cover_", v>>)
      [] OTHER -> IF v = 0 THEN <<>>
                  ELSE IF v = 1 THEN << [ content |-> "n", dateAdded |-> v ] >>
                  ELSE << [ content |-> "n", dateAdded |-> v ],
                          [ content |-> "m", dateAdded |-> 1 ] >>

\* the rows createGame writes, and the rows of a database older than the two
\* list columns, which ALTER TABLE left NULL
StoredRows ==
    LET written == { createGame([ i \in {} |-> Null ], 1,
                                [ k \in UpdatableKeys |-> FieldValue(k, v) ], 0)[1] :
                     v \in {0, 1} }
    IN  written \cup { [ row EXCEPT !.additionalPhotos = Null, !.additionalNotes = Null ] :
                       row \in written }

\* partial payloads: no key, one key, two keys or every key, falsy or truthy
Payloads ==
    { [ k \in ks |-> FieldValue(k, v) ] :
      ks \in { x \in SUBSET UpdatableKeys : Cardinality(x) <= 2 \/ x = UpdatableKeys },
      v \in {0, 2} }

InitDb ==
    /\ games \in { [ i \in {1} |-> row ] : row \in StoredRows }
    /\ nextId = 2
    /\ assets = [dirs |-> {}, files |-> {}]
    /\ nextFile = 1
    /\ answered = 0
    /\ last = [ NoRequest EXCEPT !.issued = <<1>> ]
    /\ inflight = <<>>

\* db.updateGame(id, gameData), the row there or not
UpdateGame ==
    \E id \in 1..2, gameData \in Payloads :
      /\ answered < MaxCalls
      /\ games' = IF getGameById(games, id) = Null THEN games
                  ELSE updateGame(games, id, gameData)
      /\ last' = [ NoRequest EXCEPT !.op = "updateGame", !.id = id, !.body = gameData,
                                    !.table = games, !.issued = last.issued,
                                    !.error = IF getGameById(games, id) = Null
                                              THEN "Game not found" ELSE "none" ]
      /\ answered' = answered + 1
      /\ UNCHANGED <<nextId, assets, nextFile, inflight>>

\* db.createGame(gameData): stmt.run rejects a title that is undefined
CreateGame ==
    \E gameData \in Payloads, date \in {0} :
      /\ answered < MaxCalls
      /\ games' = IF "title" \in DOMAIN gameData
                  THEN createGame(games, Autoincrement(games, nextId), gameData, date)
                  ELSE games
      /\ nextId' = IF "title" \in DOMAIN gameData
                   THEN Autoincrement(games, nextId) + 1 ELSE nextId
      /\ last' = [ NoRequest EXCEPT !.op = "createGame", !.body = gameData,
                                    !.id = Autoincrement(games, nextId),
                                    !.table = games,
                                    !.issued = IF "title" \in DOMAIN gameData
                                               THEN Append(last.issued,
                                                           Autoincrement(games, nextId))
                                               ELSE last.issued,
                                    !.error = IF "title" \in DOMAIN gameData
                                              THEN "none" ELSE "TypeError" ]
      /\ answered' = answered + 1
      /\ UNCHANGED <<assets, nextFile, inflight>>

\* a run on the one stored row
Calls == [ games |-> 1, requests |-> MaxCalls, dates |-> {0} ]

\* updateGame or createGame called with any payload, or updateGame called by
\* the update handler with a form or by the handlers that add a note or a
\* photo
NextDb ==
    \/ UpdateGame
    \/ CreateGame
    \/ Update(FieldForms, {"none"}, Calls)
    \/ AddNoteRequest(Calls)
    \/ AddPhotoRequest({"none"}, Calls)

SpecDb == InitDb /\ [][NextDb]_vars

(***************************************************************************)
(* Handlers in flight together. A handler gives way at each await: the    *)
(* pieces between two awaits run alone, and the pieces of handlers that   *)
(* have started follow each other in any order. An activation holds the   *)
(* request, where the handler stands (pc) and its local variables.        *)
(***************************************************************************)
ConcRequests ==
    { [ op |-> "update", id |-> 1, body |-> b, content |-> "" ] :
      b \in { [ title |-> <<"B">> ],
              [ title |-> <<"a">>, finished |-> "true" ],
              [ title |-> <<"a">>, notes |-> "N" ] } }
    \cup { [ op |-> "add-note", id |-> 1, body |-> NoFields, content |-> c ] :
           c \in {"x", "y"} }

\* one game with a cover in its folder, as POST /games/create leaves it
InitConc ==
    LET form == [ body |-> [ title |-> <<"a">> ], files |-> {"coverArt"},
                  seen |-> {"coverArt"} ]
        table == CreateHandler([ i \in {} |-> Null ], 1, form.body, form.files, 1, 0,
                               "none").table
        fs == Upload([dirs |-> {}, files |-> {}], form.body, form.files, form.seen, 1)
    IN  /\ games = table
        /\ nextId = 2
        /\ assets = fs
        /\ nextFile = 2
        /\ answered = 0
        /\ last = [ NoRequest EXCEPT !.op = "start", !.table = table, !.pre = fs,
                                     !.issued = <<1>> ]
        /\ inflight = <<>>

\* the activation answers
Answer(a, status) == [ a EXCEPT !.pc = "done", !.status = status ]

\* the call of db.updateGame up to its await: the payload and the row it reads
CallUpdateGame(a, gameData) ==
    [ a EXCEPT !.pc = "merging", !.gameData = gameData,
               !.existingGame = getGameById(games, a.req.id) ]

\* the update handler from "Handle file uploads" to the await in updateGame
Attached(a) ==
    LET st == AttachFiles([ threw |-> FALSE, fs |-> assets,
                            gameData |-> GameData(a.req.body, a.game) ],
                          a.game, {}, nextFile, "none")
    IN  IF st.threw THEN Answer(a, 500) ELSE CallUpdateGame(a, st.gameData)

\* a request arrives: its handler runs to the await of getGameById
Accept ==
    \E r \in ConcRequests :
      /\ Len(inflight) < MaxInflight
      /\ inflight' = Append(inflight,
                            [ req |-> r, pc |-> "loaded", status |-> 0,
                              game |-> getGameById(games, r.id),
                              gameData |-> NoFields, existingGame |-> Null ])
      /\ UNCHANGED <<games, nextId, assets, nextFile, answered, last>>

\* update handler, after getGameById: to the await of renameGameFolder when
\* the title changes, else on to the await in updateGame
Migrate ==
    \E i \in DOMAIN inflight :
      LET a == inflight[i]
      IN  /\ a.req.op = "update" /\ a.pc = "loaded"
          /\ IF a.game = Null
             THEN /\ inflight' = [ inflight EXCEPT ![i] = Answer(a, 404) ]
                  /\ UNCHANGED assets
             ELSE IF TitleChanged(a.req.body, a.game)
             THEN \E r \in Migration(assets, a.game, a.req.body, "none") :
                    /\ assets' = r.fs
                    /\ inflight' = [ inflight EXCEPT ![i].pc = "migrated" ]
             ELSE /\ inflight' = [ inflight EXCEPT ![i] = Attached(a) ]
                  /\ UNCHANGED assets
          /\ UNCHANGED <<games, nextId, nextFile, answered, last>>

\* update handler, after renameGameFolder: on to the await in updateGame
Attach ==
    \E i \in DOMAIN inflight :
      /\ inflight[i].req.op = "update" /\ inflight[i].pc = "migrated"
      /\ inflight' = [ inflight EXCEPT ![i] = Attached(inflight[i]) ]
      /\ UNCHANGED <<games, nextId, assets, nextFile, answered, last>>

\* add-note handler, after getGameById: on to the await in updateGame
AddNote ==
    \E i \in DOMAIN inflight, date \in Dates :
      LET a == inflight[i]
      IN  /\ a.req.op = "add-note" /\ a.pc = "loaded"
          /\ inflight' =
               [ inflight EXCEPT ![i] =
                   IF a.game = Null THEN Answer(a, 404)
                   ELSE IF a.req.content = "" THEN Answer(a, 400)
                   ELSE CallUpdateGame(a, NoteData(a.game, a.req.content, date)) ]
          /\ UNCHANGED <<games, nextId, assets, nextFile, answered, last>>

\* updateGame, after its getGameById: the merge and the UPDATE statement, and
\* the handler's answer
Persist ==
    \E i \in DOMAIN inflight :
      LET a == inflight[i]
      IN  /\ a.pc = "merging"
          /\ IF a.existingGame = Null
             THEN /\ inflight' = [ inflight EXCEPT ![i] = Answer(a, 500) ]
                  /\ UNCHANGED games
             ELSE /\ games' = UpdateStatement(games, a.req.id,
                                              mergedData(a.gameData, a.existingGame))
                  /\ inflight' = [ inflight EXCEPT ![i] = Answer(a, 200) ]
          /\ answered' = answered + 1
          /\ UNCHANGED <<nextId, assets, nextFile, last>>

NextConc == Accept \/ Migrate \/ Attach \/ AddNote \/ Persist

SpecConc == InitConc /\ [][NextConc]_vars

\* the handler of request r run alone on (table, fs): what it leaves
Alone(r, table, fs) ==
    IF r.op = "update"
    THEN { [ table |-> o.table, fs |-> o.fs ] :
           o \in UpdateHandler(table, fs, r.id, r.body, {}, nextFile, "none") }
    ELSE { [ table |-> AddNoteHandler(table, r.id, r.content, d).table, fs |-> fs ] :
           d \in Dates }

\* the tables the requests of reqs leave when run one after the other
RECURSIVE OneAfterTheOther(_, _, _)
OneAfterTheOther(reqs, table, fs) ==
    IF reqs = <<>> THEN {table}
    ELSE UNION { OneAfterTheOther(Tail(reqs), o.table, o.fs) :
                 o \in Alone(Head(reqs), table, fs) }

\* the orders in which n requests can be run
Orders(n) == { p \in [1..n -> 1..n] : \A i, j \in 1..n : p[i] = p[j] => i = j }

(***************************************************************************)
(* POST /games/:id/add-photo with its upload in steps. multer asks         *)
(* photoStorage for the destination, which reads the game and makes the    *)
(* folder; the write stream then creates the file from the thread pool,    *)
(* at any moment from there on; when the file is written the handler runs. *)
(* Update requests are answered in between.                                *)
(***************************************************************************)
Photo == [ games |-> MaxGames, requests |-> PhotoRequests, dates |-> {0} ]

\* photoStorage.destination and filename: the folder of the title stored now
ResolveDestination ==
    \E id \in 1..Photo.games :
      LET game == getGameById(games, id)
          dir == DirOf(sanitizeFolderName(game.title))
      IN  /\ answered < Photo.requests
          /\ Len(inflight) < MaxInflight
          /\ nextFile <= MaxFiles
          /\ game # Null
          /\ assets' = mkdirSync(assets, dir)
          /\ inflight' = Append(inflight,
                                [ req |-> [ op |-> "add-photo", id |-> id ],
                                  pc |-> "resolved", status |-> 0,
                                  dir |-> dir, name |-> PhotoName(nextFile) ])
          /\ nextFile' = nextFile + 1
          /\ answered' = answered + 1
          /\ UNCHANGED <<games, nextId, last>>

\* fs.createWriteStream(path.join(destination, filename)): the file is
\* created in the folder, or, the folder being gone, the upload fails with
\* ENOENT and the request is answered 500
WriteFile ==
    \E i \in DOMAIN inflight :
      LET a == inflight[i]
      IN  /\ a.pc = "resolved"
          /\ IF a.dir \in assets.dirs
             THEN /\ assets' = [ assets EXCEPT !.files =
                                   @ \cup {[ dir |-> a.dir, name |-> a.name ]} ]
                  /\ inflight' = [ inflight EXCEPT ![i].pc = "written" ]
             ELSE /\ inflight' = [ inflight EXCEPT ![i].pc = "done", ![i].status = 500 ]
                  /\ UNCHANGED assets
          /\ UNCHANGED <<games, nextId, nextFile, answered, last>>

\* an update request answered while a write stream has still to create its
\* file in the old folder, the file landing after readdirSync and before
\* rmdirSync: the migration moves the entries it listed, rmdirSync fails
\* with ENOTEMPTY, which renameGameFolder only logs, and the file is in the
\* old folder
UpdateWhileWriting ==
    \E i \in DOMAIN inflight, form \in ListForms :
      LET a == inflight[i]
          existingGame == getGameById(games, a.req.id)
      IN  /\ a.pc = "resolved"
          /\ form.files = {}
          /\ existingGame # Null
          /\ a.dir = DirOf(sanitizeFolderName(existingGame.title))
          /\ TitleChanged(form.body, existingGame)
          /\ \E out \in UpdateHandler(games, assets, a.req.id, form.body, {}, nextFile,
                                      "rmdir") :
               /\ out.rename = "migrated"
               /\ games' = out.table
               /\ assets' = [ out.fs EXCEPT !.files =
                                @ \cup {[ dir |-> a.dir, name |-> a.name ]} ]
               /\ last' = Request("update", a.req.id, form, out, out.rename,
                                  out.removed, out.moved)
          /\ inflight' = [ inflight EXCEPT ![i].pc = "written" ]
          /\ UNCHANGED <<nextId, nextFile, answered>>

\* the add-photo handler, the file written: from getGameById to the answer
AddPhoto ==
    \E i \in DOMAIN inflight, date \in Photo.dates :
      LET a == inflight[i]
          out == AddPhotoHandler(games, a.req.id, TRUE, a.name[2], date, "none")
      IN  /\ a.pc = "written"
          /\ games' = out.table
          /\ last' = [ Request("add-photo", a.req.id, NoForm, out, "none", FALSE, assets)
                         EXCEPT !.files = {"photo"},
                                !.names = [ photo |-> a.name ],
                                !.body = [ destination |-> a.dir ] ]
          /\ inflight' = [ inflight EXCEPT ![i].pc = "done", ![i].status = out.status ]
          /\ UNCHANGED <<nextId, assets, nextFile, answered>>

NextPhoto ==
    \/ Create(ListForms, {"none"}, Photo)
    \/ Update(ListForms, {"none"}, Photo)
    \/ ResolveDestination
    \/ WriteFile
    \/ UpdateWhileWriting
    \/ AddPhoto

SpecPhoto == Init /\ [][NextPhoto]_vars

(***************************************************************************)
(* Properties. Before and After are the record of the last request as     *)
(* getGameById gives it before and after the request.                     *)
(***************************************************************************)
Before == getGameById(last.table, last.id)

After == getGameById(games, last.id)

\* every path of the record names a file of the asset store
PathsExist(game, fs) ==
    game # Null =>
      \A k \in PathKeys : game[k] # Null => LocalFile(game[k]) \in fs.files

\* the request was for a record with a title, as every record should be
HadTitle == Before # Null /\ Before.title # <<>>

\* C1: an update (of a record with a title) whose folder migration fails on a
\* file move is aborted with an error, and the stored record keeps its title,
\* its paths and every field
MigrationFailureAborts ==
    (last.op = "update" /\ HadTitle /\ last.rename = "failed") =>
      (last.status # 200 /\ games = last.table)

\* C2: after an update that changes the title, whatever the migration did,
\* every non-null cover and gameplay path of the record names a file that
\* exists, given that the record had a title and that its paths named files
\* that existed before the request
RenamedPathsExist ==
    ( /\ last.op = "update" /\ HadTitle /\ last.rename # "none"
      /\ PathsExist(Before, last.pre) ) =>
      PathsExist(After, assets)

\* C3: in every state, each non-null cover and gameplay path of every record
\* has sanitizeFolderName of the record's title as its folder segment
PathsFollowTitle ==
    \A id \in DOMAIN games : \A k \in PathKeys :
      games[id][k] # Null => games[id][k].folder = sanitizeFolderName(games[id].title)

\* C4: updateGame on an existing record replaces exactly the keys of the
\* payload by the payload's values, falsy ones too, and changes nothing else
MergeReplacesProvidedKeys ==
    (last.op = "updateGame" /\ Before # Null) =>
      After = [ k \in DOMAIN Before |->
                  IF k \in DOMAIN last.body THEN last.body[k] ELSE Before[k] ]

\* C4, its case: a payload whose falsy value replaced a truthy stored one,
\* beside a truthy stored value the payload does not name
FalsyValueStored ==
    /\ last.op = "updateGame" /\ Before # Null
    /\ \E k \in DOMAIN last.body :
         Truthy(k, Before[k]) /\ ~Truthy(k, last.body[k]) /\ After[k] = last.body[k]
    /\ \E k \in UpdatableKeys \ DOMAIN last.body : Truthy(k, Before[k])

\* the fields an update form can carry
FormKeys == {"title"} \cup TextKeys \cup IntKeys \cup BoolKeys

\* C5: an update request with only some of the fields, for a record with a
\* title, succeeds (the store working) and leaves every field absent from the
\* request as it was stored
AbsentFieldsKept ==
    (last.op = "update" /\ HadTitle /\ last.error # "db") =>
      /\ last.status = 200
      /\ \A k \in FormKeys \ DOMAIN last.body : After[k] = Before[k]

\* every handler that started has answered
AllAnswered == inflight # <<>> /\ \A i \in DOMAIN inflight : inflight[i].pc = "done"

\* C6: when the requests in flight together have all been answered, the
\* table is what they leave when run one after the other in some order
HandlersSerialized ==
    AllAnswered =>
      \E p \in Orders(Len(inflight)) :
        games \in OneAfterTheOther([ i \in 1..Len(inflight) |-> inflight[p[i]].req ],
                                   last.table, last.pre)

\* the folders of the title before the request and of the title it carries
OldDir == DirOf(sanitizeFolderName(Before.title))

NewDir == DirOf(sanitizeFolderName(last.body.title))

UnknownIdChangesNothing ==
    (last.op = "update" /\ Before = Null) =>
      (last.status = 404 /\ games = last.table /\ assets = last.pre)

\* C9: an update request (for no record, or for a record with a title) in
\* which a step before the persist fails (the load, the migration, an unlink,
\* the write) is answered with an error and leaves the stored record as it was
FailedStepChangesNothing ==
    ( /\ last.op = "update" /\ (Before = Null \/ HadTitle)
      /\ (last.error # "none" \/ last.rename = "failed") ) =>
      (last.status # 200 /\ games = last.table)

\* the form field that uploads the file of a path key
FileField(k) == IF k = "coverArtPath" THEN "coverArt" ELSE "gameplayImage"

\* C10: after a successful update that uploads a cover or gameplay file for a
\* record (with a title) that had one, the file the record named before is
\* nowhere in the asset store, the title changing or not
PreviousFileDeleted ==
    \A k \in PathKeys :
      ( /\ last.op = "update" /\ HadTitle /\ last.status = 200
        /\ FileField(k) \in last.files
        /\ Before[k] # Null /\ LocalFile(Before[k]) \in last.pre.files ) =>
        \A f \in assets.files : f.name # Before[k].filename

\* the stored path of key k with the folder of the old title replaced by the
\* folder of the title the request carries
Rewritten(k) ==
    IF Before[k] = Null THEN Null
    ELSE ReplaceFolder(Before[k], sanitizeFolderName(Before.title),
                       sanitizeFolderName(last.body.title))

\* C11: after a persisted update that changes the title, a path whose file
\* the request uploads is the URL of the uploaded file under the folder of
\* the new title, and a path without upload is the rewritten stored path
UploadSupersedesRewrite ==
    (last.op = "update" /\ last.status = 200 /\ last.rename # "none") =>
      \A k \in PathKeys :
        After[k] = IF FileField(k) \in last.files
                   THEN Url(sanitizeFolderName(last.body.title), last.names[FileField(k)])
                   ELSE Rewritten(k)

\* C11, its case: the folder migrated, a cover uploaded over a stored cover
\* and a stored gameplay path rewritten
UploadOverRewrittenCover ==
    /\ last.op = "update" /\ last.status = 200 /\ last.rename = "migrated"
    /\ last.files = {"coverArt"}
    /\ Before.coverArtPath # Null /\ Before.gameplayImagePath # Null
    /\ After.coverArtPath # Rewritten("coverArtPath")
    /\ After.gameplayImagePath = Rewritten("gameplayImagePath")
    /\ After.gameplayImagePath # Before.gameplayImagePath

\* the request carries a title that differs from the stored one
ChangesTitle == last.op = "update" /\ Before # Null /\ TitleChanged(last.body, Before)

\* C12: an update that changes the title to one with the same folder name
\* skips the migration and, no unlink or statement failing, persists the new
\* title; the paths without upload are stored unchanged, and without uploads
\* no folder or file is created, moved or removed
SameTokenSkips ==
    ( /\ ChangesTitle /\ last.error \notin {"db", "unlink"}
      /\ sanitizeFolderName(Before.title) = sanitizeFolderName(last.body.title) ) =>
      /\ last.rename = "skipped"
      /\ last.status = 200 /\ After.title = last.body.title
      /\ \A k \in PathKeys : FileField(k) \notin last.files => After[k] = Before[k]
      /\ last.files = {} => assets = last.pre

\* C12, its case: the title of a record with a cover in its folder changed
\* to another title with the same folder name
SameTokenRenamed ==
    /\ ChangesTitle /\ last.status = 200 /\ last.files = {}
    /\ sanitizeFolderName(Before.title) = sanitizeFolderName(last.body.title)
    /\ Before.coverArtPath # Null /\ LocalFile(Before.coverArtPath) \in last.pre.files
    /\ After.title # Before.title

\* C13: an update (of a record with a title) that changes the title to one
\* with another folder name while the old folder does not exist skips the
\* migration, stores the paths without upload exactly as they were and,
\* without uploads, creates and changes no folder
MissingFolderSkips ==
    ( /\ ChangesTitle /\ HadTitle /\ last.error \notin {"db", "unlink"}
      /\ sanitizeFolderName(Before.title) # sanitizeFolderName(last.body.title)
      /\ OldDir \notin last.pre.dirs ) =>
      /\ last.rename = "skipped"
      /\ \A k \in PathKeys : FileField(k) \notin last.files => After[k] = Before[k]
      /\ last.files = {} => assets = last.pre

\* C14: when every move of a migration succeeds and the removal of the old
\* folder fails, the migration reports success with every file of the old
\* folder in the new one, and the update is persisted with the rewritten
\* paths
RemovalFailureTolerated ==
    (last.op = "update" /\ HadTitle /\ last.rename = "migrated" /\ ~last.removed) =>
      /\ \A f \in last.pre.files :
           f.dir = OldDir => [ dir |-> NewDir, name |-> f.name ] \in last.moved.files
      /\ last.status = 200 /\ After.title = last.body.title
      /\ \A k \in PathKeys : FileField(k) \notin last.files => After[k] = Rewritten(k)

\* C14, its case: the files of a folder moved, the old folder still there
OldFolderLeft ==
    /\ last.op = "update" /\ HadTitle /\ last.rename = "migrated" /\ ~last.removed
    /\ \E f \in last.pre.files : f.dir = OldDir
    /\ OldDir \in assets.dirs /\ IsEmptyDir(assets, OldDir)
    /\ After.coverArtPath # Null /\ After.coverArtPath # Before.coverArtPath

\* the requests that end in updateGame
UpdateOps == {"update", "add-photo", "add-note", "delete-photo", "delete-note"}

\* C15: an update, add-photo, add-note, delete-photo or delete-note request
\* leaves the ids of the table as they are and the dateAdded of every row
\* as createGame set it
IdentityAndDateKept ==
    last.op \in UpdateOps =>
      /\ DOMAIN games = DOMAIN last.table
      /\ \A id \in DOMAIN games :
           /\ games[id].dateAdded = last.table[id].dateAdded
           /\ getGameById(games, id).id = getGameById(last.table, id).id

\* C15, its case: a request changed the row of a game created on date 2
RowChangedDateKept ==
    /\ last.op \in UpdateOps /\ last.status = 200
    /\ games # last.table
    /\ games[last.id].dateAdded = 2

\* C16: the same update applied again changes nothing in the table, be it
\* updateGame with its payload or an answered update form (without files),
\* a form that changes the title included
UpdateIdempotent ==
    /\ (last.op = "updateGame" /\ Before # Null) =>
         updateGame(games, last.id, last.body) = games
    /\ (last.op = "update" /\ last.status = 200 /\ last.files = {}) =>
         \A o \in UpdateHandler(games, assets, last.id, last.body, {}, nextFile, "none") :
           o.status = 200 /\ o.table = games

\* C16, its case: an update form changed the title and the folder of a
\* stored path
TitleAndPathChanged ==
    /\ last.op = "update" /\ last.status = 200
    /\ After.title # Before.title
    /\ Before.coverArtPath # Null /\ After.coverArtPath # Before.coverArtPath

\* C17: every stored record has a non-empty title; a create request whose
\* title is missing or empty is rejected and leaves the table and the asset
\* store as they were
TitlesNonEmpty ==
    /\ \A id \in DOMAIN games : games[id].title # <<>>
    /\ (last.op = "create" /\ ~HasTitle(last.body)) =>
         last.status # 200 /\ games = last.table /\ assets = last.pre

\* every path the record refers to: cover, gameplay image and photos
ReferencedPaths(game) ==
    { game[k] : k \in { k \in PathKeys : game[k] # Null } }
    \cup { game.additionalPhotos[i].path : i \in DOMAIN game.additionalPhotos }

\* C18: after a delete answered 200 the row is gone and no file the record
\* referred to (cover, gameplay image, additional photos) is in the asset
\* store
DeleteRemovesRowAndFiles ==
    (last.op = "delete" /\ last.status = 200) =>
      /\ last.id \notin DOMAIN games
      /\ \A path \in ReferencedPaths(Before) : LocalFile(path) \notin assets.files

\* what createGame binds for a field gameData leaves out
Default(k) ==
    CASE k \in TextKeys -> ""
      [] k \in IntKeys -> 0
      [] k \in BoolKeys -> FALSE
      [] k \in PathKeys -> Null
      [] OTHER -> <<>>

\* C19: getGameById of the id createGame assigned returns every provided
\* field as the payload gave it and every omitted field as its default
CreateRoundTrip ==
    (last.op = "createGame" /\ "title" \in DOMAIN last.body) =>
      /\ After # Null
      /\ \A k \in UpdatableKeys :
           After[k] = IF k \in DOMAIN last.body THEN last.body[k] ELSE Default(k)

\* C19, its case: a payload with a title and a list of notes and nothing else
CreatedWithNotesOnly ==
    /\ last.op = "createGame" /\ DOMAIN last.body = {"title", "additionalNotes"}
    /\ last.body.additionalNotes # <<>>
    /\ After # Null /\ After.additionalNotes = last.body.additionalNotes
    /\ After.link = "" /\ After.coverArtPath = Null

\* C20: the ids createGame returned, in the order it returned them, are
\* strictly increasing (so none was given twice, after a delete or a clear
\* either), and every row has one of them
IdsStrictlyIncrease ==
    /\ \A i, j \in DOMAIN last.issued : i < j => last.issued[i] < last.issued[j]
    /\ \A id \in DOMAIN games : \E i \in DOMAIN last.issued : last.issued[i] = id

\* C20, its case: an import cleared a table that had rows and created rows
ImportedOverRows ==
    /\ last.op = "import" /\ last.status = 200
    /\ DOMAIN last.table # {} /\ DOMAIN games # {}
    /\ \A new \in DOMAIN games, old \in DOMAIN last.table : new > old

\* list ends with one new entry after all the entries of old, in their order
Appended(old, list) ==
    Len(list) = Len(old) + 1 /\ SubSeq(list, 1, Len(old)) = old

\* C21: a list of photos or notes given to createGame or updateGame comes
\* back from getGameById and getAllGames with the same entries in the same
\* order; add-note and add-photo put the new entry after the earlier ones
ListsRoundTrip ==
    /\ (last.op \in {"createGame", "updateGame"} /\ After # Null) =>
         \A k \in ListKeys \cap DOMAIN last.body :
           /\ After[k] = last.body[k]
           /\ \E game \in getAllGames(games) : game.id = last.id /\ game[k] = last.body[k]
    /\ (last.op = "add-note" /\ last.status = 200) =>
         /\ Appended(Before.additionalNotes, After.additionalNotes)
         /\ After.additionalNotes[Len(After.additionalNotes)].content = last.body.content
         /\ After.additionalPhotos = Before.additionalPhotos
    /\ (last.op = "add-photo" /\ last.status = 200) =>
         /\ Appended(Before.additionalPhotos, After.additionalPhotos)
         /\ After.additionalPhotos[Len(After.additionalPhotos)].filename = last.names.photo
         /\ After.additionalNotes = Before.additionalNotes

\* C21, its case: updateGame stored a list of two different notes
TwoNotesStored ==
    /\ last.op = "updateGame" /\ After # Null
    /\ "additionalNotes" \in DOMAIN last.body
    /\ Len(last.body.additionalNotes) = 2
    /\ last.body.additionalNotes[1] # last.body.additionalNotes[2]
    /\ After.additionalNotes = last.body.additionalNotes

\* the pipeline in one pass over the title: every character outside
\* [A-Za-z0-9-] counts as "_", a "_" at the start or after a "_" is left out,
\* letters are written in lower case
RECURSIVE Squeeze(_, _)
Squeeze(out, s) ==
    IF s = <<>> THEN out
    ELSE LET c == IF IsFolderChar(s[1]) THEN ToLowerChar(s[1]) ELSE "_"
         IN  IF c = "_" /\ (out = <<>> \/ out[Len(out)] = "_")
             THEN Squeeze(out, Tail(s))
             ELSE Squeeze(Append(out, c), Tail(s))

\* then the "_" at the end is dropped and the first 50 characters kept
ReferenceToken(title) ==
    LET squeezed == Squeeze(<<>>, title)
        stripped == IF squeezed # <<>> /\ squeezed[Len(squeezed)] = "_"
                    THEN SubSeq(squeezed, 1, Len(squeezed) - 1) ELSE squeezed
    IN  SubSeq(stripped, 1, IF Len(stripped) > 50 THEN 50 ELSE Len(stripped))

\* C22: sanitizeFolderName returns what the reference pipeline gives, only
\* characters of [a-z0-9_-] and at most 50 of them; "My Game!" gives
\* "my_game" and the empty string the empty string
SanitizerContract ==
    last.op = "sanitizeFolderName" =>
      LET token == last.names.folderName
      IN  /\ token = ReferenceToken(last.body.title)
          /\ \A i \in DOMAIN token :
               token[i] \in Range(LowerChars) \cup Range(DigitChars) \cup {"_", "-"}
          /\ Len(token) <= 50
          /\ last.body.title = <<"M", "y", " ", "G", "a", "m", "e", "!">> =>
               token = <<"m", "y", "_", "g", "a", "m", "e">>
          /\ last.body.title = <<>> => token = <<>>

\* C22, its case: "My Game!" was sanitized
MyGameSanitized ==
    /\ last.op = "sanitizeFolderName"
    /\ last.body.title = <<"M", "y", " ", "G", "a", "m", "e", "!">>
    /\ last.names.folderName = <<"m", "y", "_", "g", "a", "m", "e">>

\* the text the chain has before .substring(0, 50)
Stripped(title) == StripUnderscores(CollapseUnderscores(ReplaceUnsafe(title)))

EndsWithUnderscore(token) == token # <<>> /\ token[Len(token)] = "_"

\* C28: the folder name neither begins nor ends with "_", cut at 50
\* characters or not, and sanitizeFolderName of it gives it back
NoUnderscoreAtEnds ==
    /\ last.op \in {"sanitizeFolderName", "again"} =>
         /\ last.names.folderName # <<>> => last.names.folderName[1] # "_"
         /\ ~EndsWithUnderscore(last.names.folderName)
    /\ last.op = "again" => last.names.again = last.names.folderName

\* C28 as amended: the folder name never begins with "_"; it ends with "_"
\* only when the text was cut at 50 characters; and sanitizeFolderName of a
\* folder name that does not end with "_" gives it back
UnderscoreAtEndOnlyWhenCut ==
    /\ last.op \in {"sanitizeFolderName", "again"} =>
         /\ last.names.folderName # <<>> => last.names.folderName[1] # "_"
         /\ EndsWithUnderscore(last.names.folderName) =>
              Len(Stripped(last.body.title)) > MaxFolderLen
    /\ (last.op = "again" /\ ~EndsWithUnderscore(last.names.folderName)) =>
         last.names.again = last.names.folderName

\* C28, its case: a title that was cut gave a folder name of 50 characters,
\* which sanitizeFolderName gave back
CutAndStable ==
    /\ last.op = "again"
    /\ Len(Stripped(last.body.title)) > MaxFolderLen
    /\ Len(last.names.folderName) = MaxFolderLen
    /\ last.names.again = last.names.folderName

\* the records of the table other than the one the request names
Others == DOMAIN last.table \ {last.id}

\* C23: an update or a delete of one game (all titles non-empty) leaves every
\* file another game's record refers to where that record says it is
OtherGamesKeepFiles ==
    (/\ last.op \in {"update", "delete"}
     /\ \A id \in DOMAIN last.table : last.table[id].title # <<>>
     /\ last.op = "update" => HasTitle(last.body)) =>
      \A id \in Others :
        /\ id \in DOMAIN games /\ games[id] = last.table[id]
        /\ \A path \in ReferencedPaths(getGameById(last.table, id)) :
             LocalFile(path) \in last.pre.files => LocalFile(path) \in assets.files

\* C24: after an update that changed the title and migrated the folder, each
\* photo path of the record has the new folder as its folder segment and
\* names a file of the asset store
PhotosFollowMigration ==
    (last.op = "update" /\ last.status = 200 /\ last.rename = "migrated") =>
      \A i \in DOMAIN After.additionalPhotos :
        /\ After.additionalPhotos[i].path.folder = sanitizeFolderName(last.body.title)
        /\ LocalFile(After.additionalPhotos[i].path) \in assets.files

\* the entry the add-photo request put at the end of the list
NewPhoto == After.additionalPhotos[Len(After.additionalPhotos)]

\* C25: the path an add-photo request recorded has the folder its file was
\* written to and is in, updates answered during the upload or not
PhotoPathNamesItsFolder ==
    (last.op = "add-photo" /\ last.status = 200 /\ "destination" \in DOMAIN last.body) =>
      /\ DirOf(NewPhoto.path.folder) = last.body.destination
      /\ LocalFile(NewPhoto.path) \in assets.files

\* the path key of a file field
PathKey(fieldname) == IF fieldname = "coverArt" THEN "coverArtPath" ELSE "gameplayImagePath"

\* C26: after a create or update answered 200 that uploaded files (the form
\* having a title), each uploaded file is where the stored path says: the
\* folder multer chose is the folder of the path, in whatever order the
\* title and the files came
UploadIsWherePathSays ==
    (last.op \in {"create", "update"} /\ last.status = 200 /\ HasTitle(last.body)) =>
      \A f \in last.files :
        /\ After[PathKey(f)] # Null
        /\ After[PathKey(f)].filename = last.names[f]
        /\ Destination(last.body, f, last.seen) = DirOf(After[PathKey(f)].folder)
        /\ LocalFile(After[PathKey(f)]) \in assets.files

\* the list a delete-photo or delete-note request is about
ListKey == IF last.op = "delete-photo" THEN "additionalPhotos" ELSE "additionalNotes"

\* text is an integer of 0 .. length-1 in decimal digits
IsIndex(text, length) ==
    /\ text # <<>> /\ LeadingDigits(text) = text
    /\ DigitsValue(text) < length

\* list without its element at position i, counted from 0
WithoutAt(list, i) ==
    [ j \in 1..(Len(list) - 1) |-> IF j <= i THEN list[j] ELSE list[j + 1] ]

\* C27: a delete-photo or delete-note request whose index is not an integer
\* of 0 .. length-1 is answered with an error and leaves both lists and the
\* asset store as they were; one with such an index i, answered 200, removes
\* the element at i and keeps the others in order
IndexChecked ==
    (last.op \in {"delete-photo", "delete-note"} /\ Before # Null) =>
      IF IsIndex(last.body.index, Len(Before[ListKey]))
      THEN last.status = 200 =>
             /\ After[ListKey] = WithoutAt(Before[ListKey], DigitsValue(last.body.index))
             /\ \A k \in ListKeys \ {ListKey} : After[k] = Before[k]
      ELSE /\ last.status # 200
           /\ \A k \in ListKeys : After[k] = Before[k]
           /\ assets = last.pre

====
